---- MODULE Spec2Model ----
(***************************************************************************)
(* Model of the whopays-api receipt split computation                      *)
(* (app/services/receipt_services.py).                                     *)
(*                                                                         *)
(* Money is modelled in whole cents.  The code reads the stored floats     *)
(* through Decimal(str(x)), which is exact for an amount written with two  *)
(* decimals, adds Decimals exactly, and writes each output through         *)
(* float(d), whose nearest cent is d again for every amount of the model,  *)
(* so an output field is represented by the cents of the Decimal it was    *)
(* converted from.                                                         *)
(***************************************************************************)
EXTENDS Integers, Sequences, FiniteSets, TLC

\* ---------------------------------------------------------------- bounds
\* Amounts are in cents.
MaxItems == 1
MaxPrice == 2
MaxTax == 1
MaxService == 1
MaxTotal == 1

\* Decimal's default context precision (significant digits).
DecimalPrec == 28

\* The ids of the user's friends.
AllFriends == {1, 2}

Prices == (0 - 1)..MaxPrice
Quantities == {0, 1}
Taxes == (0 - 1)..MaxTax
ServiceCharges == {0, MaxService}
TotalAmounts == {0, MaxTotal}
LinkStates == {"none", "active", "deleted"}

NoReceipt == [id |-> 0]

VARIABLES receipt, deleted_friends, receipt_friends, pc, result

\* The calls of _calculate_splits in flight: their arguments and their
\* local variables.
VARIABLES invocations, frames

loop_vars == <<invocations, frames>>

\* The loop that builds the totals: the amounts and trackers it reads and
\* the list it appends to.
VARIABLES tally, totals_list

totals_vars == <<tally, totals_list>>

\* The HTTP application: the stored receipt, the request being served and
\* the response sent for it.
VARIABLES stored_receipt, request, response

http_vars == <<stored_receipt, request, response>>

\* The database behind a session, the service operation or background task
\* in progress, and the websocket to a client.
VARIABLES db, task, socket

store_vars == <<db, task, socket>>

\* No database, operation or socket takes part.
StoreIdle == db = <<>> /\ task = <<>> /\ socket = <<>>

\* The variables of the split computation and of the HTTP application.
split_vars ==
    <<receipt, deleted_friends, receipt_friends, pc, result, loop_vars,
      totals_vars, http_vars>>

vars == <<split_vars, store_vars>>

\* --------------------------------------------------------------- helpers
Abs(x) == IF x < 0 THEN 0 - x ELSE x

Min(S) == CHOOSE x \in S : \A y \in S : x <= y

RECURSIVE SortedSeq(_)
SortedSeq(S) ==
    IF S = {} THEN <<>> ELSE <<Min(S)>> \o SortedSeq(S \ {Min(S)})

RECURSIVE SumSeq(_)
SumSeq(s) == IF s = <<>> THEN 0 ELSE Head(s) + SumSeq(Tail(s))

Range(s) == {s[i] : i \in DOMAIN s}

\* Sequences without repetition over a set.
Perms(S) == {s \in [1..Cardinality(S) -> S] : Range(s) = S}

SeqsUpTo(S, n) == UNION {[1..k -> S] : k \in 0..n}

\* _round2 of the rational num/den (in cents): Decimal.quantize to cents
\* with ROUND_HALF_UP, which rounds a tie away from zero.
_round2(num, den) ==
    LET sgn == IF (num < 0) = (den < 0) THEN 1 ELSE 0 - 1
        q == (2 * Abs(num) + Abs(den)) \div (2 * Abs(den))
    IN sgn * q

\* ------------------------------------------- Decimal context arithmetic
\* A positive Decimal is a sequence of significant digits d (d[1] # 0) and
\* an exponent e, standing for 0.d[1]d[2]... * 10^e.
RECURSIVE Pow10(_)
Pow10(n) == IF n = 0 THEN 1 ELSE 10 * Pow10(n - 1)

RECURSIVE DigitsOf(_)
DigitsOf(n) == IF n = 0 THEN <<>> ELSE DigitsOf(n \div 10) \o <<n % 10>>

RECURSIVE NatOf(_)
NatOf(d) ==
    IF d = <<>> THEN 0 ELSE 10 * NatOf(SubSeq(d, 1, Len(d) - 1)) + d[Len(d)]

\* d + 1 in the last place; all nines carry into one more leading digit.
RECURSIVE IncDigits(_)
IncDigits(d) ==
    IF d = <<>> THEN <<1>>
    ELSE IF d[Len(d)] < 9 THEN [d EXCEPT ![Len(d)] = @ + 1]
    ELSE IncDigits(SubSeq(d, 1, Len(d) - 1)) \o <<0>>

\* Round a digit sequence to DecimalPrec digits, ROUND_HALF_EVEN (the
\* context's rounding); more is TRUE when non-zero digits follow d.
RoundPrec(d, e, more) ==
    IF Len(d) <= DecimalPrec /\ ~more THEN [d |-> d, e |-> e]
    ELSE IF Len(d) < DecimalPrec THEN [d |-> d, e |-> e]
    ELSE
        LET kept == SubSeq(d, 1, DecimalPrec)
            rest == SubSeq(d, DecimalPrec + 1, Len(d))
            first == IF rest = <<>> THEN 0 ELSE rest[1]
            tailnz == more \/ \E i \in 2..Len(rest) : rest[i] # 0
            up == \/ first > 5
                  \/ first = 5 /\ tailnz
                  \/ first = 5 /\ ~tailnz /\ kept[DecimalPrec] % 2 = 1
            inc == IncDigits(kept)
        IN IF ~up THEN [d |-> kept, e |-> e]
           ELSE IF Len(inc) > DecimalPrec
                THEN [d |-> SubSeq(inc, 1, DecimalPrec), e |-> e + 1]
                ELSE [d |-> inc, e |-> e]

\* The first n digits of r/den, r/den < 10.
RECURSIVE DivDigits(_, _, _)
DivDigits(r, den, n) ==
    IF n = 0 THEN <<>>
    ELSE <<r \div den>> \o DivDigits(10 * (r % den), den, n - 1)

\* Ten times the remainder left after n digits of r/den.
RECURSIVE DivRest(_, _, _)
DivRest(r, den, n) ==
    IF n = 0 THEN r ELSE DivRest(10 * (r % den), den, n - 1)

\* Decimal division a / b for a, b > 0: DecimalPrec significant digits.
DecimalDiv(a, b) ==
    LET up == CHOOSE j \in 0..9 : b * Pow10(j) <= a /\ a < b * Pow10(j + 1)
        dn == CHOOSE j \in 1..9 : b <= a * Pow10(j) /\ a * Pow10(j - 1) < b
        num == IF a >= b THEN a ELSE a * Pow10(dn)
        den == IF a >= b THEN b * Pow10(up) ELSE b
        e == IF a >= b THEN up + 1 ELSE 1 - dn
        d == DivDigits(num, den, DecimalPrec + 1)
        rest == DivRest(num, den, DecimalPrec + 1)
    IN RoundPrec(d, e, rest # 0)

\* Decimal multiplication of the natural t > 0 by x.
RECURSIVE MulDigits(_, _, _, _)
MulDigits(d, t, i, carry) ==
    IF i = 0 THEN DigitsOf(carry)
    ELSE MulDigits(d, t, i - 1, (d[i] * t + carry) \div 10)
             \o <<(d[i] * t + carry) % 10>>

DecimalMul(t, x) ==
    LET p == MulDigits(x.d, t, Len(x.d), 0)
    IN RoundPrec(p, x.e + (Len(p) - Len(x.d)), FALSE)

\* quantize(0.01, ROUND_HALF_UP) of a positive Decimal counted in cents.
QuantizeHalfUp(x) ==
    IF x.e < 0 THEN 0
    ELSE NatOf(SubSeq(x.d, 1, x.e)) + (IF x.d[x.e + 1] >= 5 THEN 1 ELSE 0)

\* _round2(amount * ratio) with ratio = subtotal_f / receipt_subtotal, the
\* quotient being rounded to the context precision before it is multiplied.
\* When amount * subtotal_f / receipt_subtotal is no tie between two cents
\* the context rounding cannot move the result, which is then _round2 of
\* the exact quotient; a tie is computed digit by digit as Decimal does.
AllocateShare(amount, subtotal_f, receipt_subtotal) ==
    LET t == Abs(amount)
        a == Abs(subtotal_f)
        b == receipt_subtotal
        sgn == IF (amount < 0) = (subtotal_f < 0) THEN 1 ELSE 0 - 1
        tie == (2 * t * a) % b = 0 /\ ((2 * t * a) \div b) % 2 = 1
    IN IF t = 0 \/ a = 0 THEN 0
       ELSE IF ~tie THEN _round2(amount * subtotal_f, b)
       ELSE sgn * QuantizeHalfUp(DecimalMul(t, DecimalDiv(a, b)))


\* ------------------------------------------------------- the input sets
\* An item of a receipt.  item_friends gives, for each friend, the state of
\* the ItemFriend link of the item to that friend: absent, present, or
\* present and soft-deleted.  Item ids are assigned in the order of the
\* receipt's item list.
ItemBodies ==
    [unit_price : Prices, quantity : Quantities,
     item_friends : [AllFriends -> LinkStates]]

WithIds(bodies) ==
    [i \in DOMAIN bodies |->
        [id |-> i, unit_price |-> bodies[i].unit_price,
         quantity |-> bodies[i].quantity,
         item_friends |-> bodies[i].item_friends]]

Receipts ==
    {[id |-> 1, total_amount |-> t, tax |-> x, service_charge |-> c,
      items |-> WithIds(b)] :
        t \in TotalAmounts, x \in Taxes, c \in ServiceCharges,
        b \in SeqsUpTo(ItemBodies, MaxItems)}

\* ------------------------------------------------- _calculate_splits
\* The friends an item is split between: the friends of its links,
\* soft-deleted links and deleted friends left out.
AssociatedFriends(item) ==
    SortedSeq({f \in DOMAIN item.item_friends :
        /\ item.item_friends[f] # "none"
        /\ ~(item.item_friends[f] = "deleted")
        /\ ~(f \in deleted_friends)})

\* The trackers before the first item.
Trackers(friends) ==
    [error |-> "none", friend_id |-> 0, items |-> <<>>,
     per_item_share_by_friend |-> [f \in Range(friends) |-> <<>>],
     friend_subtotals |-> [f \in Range(friends) |-> 0],
     receipt_subtotal |-> 0]

\* Mutant: the price is taken per unit and multiplied by the quantity.
LineTotal_TimesQuantity(unit_price, quantity) == unit_price * quantity

\* The line total of an item: its unit_price, which is the price of all
\* its units together.
LineTotal(unit_price, quantity) == unit_price

\* Mutant: every assigned friend is charged the whole line total.
PerFriendShare_Undivided(line_total, n) == line_total

\* Mutant: the share is cut to whole cents, not rounded.
PerFriendShare_Truncated(line_total, n) ==
    IF line_total >= 0 THEN line_total \div n
    ELSE 0 - ((0 - line_total) \div n)

\* The share of each of the n friends an item is split between.
PerFriendShare(line_total, n) == _round2(line_total, n)

\* Mutant: only the items that have a friend count toward the subtotal.
AccumulateSubtotal_AssignedOnly(receipt_subtotal, line_total, n) ==
    IF n = 0 THEN receipt_subtotal ELSE receipt_subtotal + line_total

\* The receipt subtotal after an item split between n friends.
AccumulateSubtotal(receipt_subtotal, line_total, n) ==
    receipt_subtotal + line_total

\* One pass of the loop over receipt.items.
ProcessItem(t, item) ==
    LET unit_price == item.unit_price
        quantity == item.quantity
        line_total == LineTotal(unit_price, quantity)
        associated_friends == AssociatedFriends(item)
        n == Len(associated_friends)
        per_friend_share == PerFriendShare(line_total, n)
        unknown == {f \in Range(associated_friends) :
                        f \notin DOMAIN t.friend_subtotals}
        shares == [i \in 1..n |->
                      [id |-> associated_friends[i], share |-> per_friend_share]]
    IN IF t.error # "none" THEN t
       ELSE IF quantity = 0
       THEN [t EXCEPT !.error = IF unit_price = 0 THEN "InvalidOperation"
                                                  ELSE "DivisionByZero"]
       ELSE IF unknown # {}
       THEN [t EXCEPT !.error = "KeyError", !.friend_id = Min(unknown)]
       ELSE [t EXCEPT
               !.friend_subtotals =
                   [f \in DOMAIN @ |->
                       IF f \in Range(associated_friends)
                       THEN @[f] + per_friend_share ELSE @[f]],
               !.per_item_share_by_friend =
                   [f \in DOMAIN @ |->
                       IF f \in Range(associated_friends)
                       THEN Append(@[f], [item_id |-> item.id,
                                          share |-> per_friend_share])
                       ELSE @[f]],
               !.items = Append(@,
                   [item_id |-> item.id, quantity |-> quantity,
                    unit_price |-> unit_price,
                    unit_total |-> _round2(unit_price, quantity),
                    line_total |-> line_total, friends |-> shares]),
               !.receipt_subtotal = AccumulateSubtotal(@, line_total, n)]

RECURSIVE ItemLoop(_, _, _)
ItemLoop(t, items, k) ==
    IF k > Len(items) THEN t
    ELSE ItemLoop(ProcessItem(t, items[k]), items, k + 1)

\* The tax and service charge shares of one friend.
FriendAllocation(f, t, tax, service_charge) ==
    LET subtotal_f == t.friend_subtotals[f]
    IN [subtotal |-> subtotal_f,
        tax |-> IF t.receipt_subtotal > 0
                THEN AllocateShare(tax, subtotal_f, t.receipt_subtotal)
                ELSE 0,
        service_charge |->
                IF t.receipt_subtotal > 0
                THEN AllocateShare(service_charge, subtotal_f, t.receipt_subtotal)
                ELSE 0]

\* Mutant: the service charge share is left out of the friend's total.
FriendTotal_WithoutService(f, t, tax, service_charge) ==
    LET a == FriendAllocation(f, t, tax, service_charge)
    IN [id |-> f, subtotal |-> a.subtotal, tax |-> a.tax,
        service_charge |-> a.service_charge,
        total |-> a.subtotal + a.tax,
        items |-> t.per_item_share_by_friend[f]]

\* The entry of the totals list for one friend.
FriendTotal(f, t, tax, service_charge) ==
    LET a == FriendAllocation(f, t, tax, service_charge)
    IN [id |-> f, subtotal |-> a.subtotal, tax |-> a.tax,
        service_charge |-> a.service_charge,
        total |-> a.subtotal + a.tax + a.service_charge,
        items |-> t.per_item_share_by_friend[f]]

\* The totals list: one entry per friend, in the order of the friends.
TotalsOf(friends, t, tax, service_charge) ==
    [i \in 1..Len(friends) |-> FriendTotal(friends[i], t, tax, service_charge)]

\* Mutant: a receipt without items gets an all-zero summary.
Summary_ZeroWithoutItems(r, t) ==
    IF r.items = <<>>
    THEN [subtotal |-> 0, tax |-> 0, service_charge |-> 0, total |-> 0]
    ELSE [subtotal |-> t.receipt_subtotal, tax |-> r.tax,
          service_charge |-> r.service_charge, total |-> r.total_amount]

\* The summary: the computed subtotal and the receipt's recorded amounts.
Summary(r, t) ==
    [subtotal |-> t.receipt_subtotal, tax |-> r.tax,
     service_charge |-> r.service_charge, total |-> r.total_amount]

\* The dictionary returned for the trackers t and the totals list, or the
\* exception that left the loop.
SplitsData(r, t, totals) ==
    IF t.error # "none"
    THEN [error |-> t.error, friend_id |-> t.friend_id]
    ELSE [error |-> "none", receipt_id |-> r.id, totals |-> totals,
          items |-> t.items, summary |-> Summary(r, t)]

\* Mutant: friends without an assigned item are left out of the totals.
_calculate_splits_OnlyAssigned(r, friends) ==
    LET t == ItemLoop(Trackers(friends), r.items, 1)
        assigned == SelectSeq(friends,
                        LAMBDA f : t.per_item_share_by_friend[f] # <<>>)
    IN SplitsData(r, t, IF t.error # "none" THEN <<>>
                        ELSE TotalsOf(assigned, t, r.tax, r.service_charge))

\* Mutant: the totals are listed by ascending friend id.
_calculate_splits_SortedById(r, friends) ==
    LET t == ItemLoop(Trackers(friends), r.items, 1)
    IN SplitsData(r, t, IF t.error # "none" THEN <<>>
                        ELSE TotalsOf(SortedSeq(Range(friends)), t, r.tax,
                                      r.service_charge))

\* Mutant: the difference between total_amount and the summed totals is
\* added to the first friend's total.
_calculate_splits_Reconciled(r, friends) ==
    LET t == ItemLoop(Trackers(friends), r.items, 1)
        totals == TotalsOf(friends, t, r.tax, r.service_charge)
        residual == r.total_amount
                    - SumSeq([i \in DOMAIN totals |-> totals[i].total])
    IN SplitsData(r, t, IF t.error # "none" THEN <<>>
                        ELSE [i \in DOMAIN totals |->
                                IF i = 1
                                THEN [totals[i] EXCEPT !.total = @ + residual]
                                ELSE totals[i]])

\* Mutant: the difference is added to the total of the friend with the
\* greatest subtotal, the smallest id among equals.
_calculate_splits_ReconciledToLargest(r, friends) ==
    LET t == ItemLoop(Trackers(friends), r.items, 1)
        totals == TotalsOf(friends, t, r.tax, r.service_charge)
        residual == r.total_amount
                    - SumSeq([i \in DOMAIN totals |-> totals[i].total])
        first(i) == \A j \in DOMAIN totals \ {i} :
                        \/ totals[i].subtotal > totals[j].subtotal
                        \/ /\ totals[i].subtotal = totals[j].subtotal
                           /\ totals[i].id < totals[j].id
    IN SplitsData(r, t, IF t.error # "none" THEN <<>>
                        ELSE [i \in DOMAIN totals |->
                                IF first(i)
                                THEN [totals[i] EXCEPT !.total = @ + residual]
                                ELSE totals[i]])

\* _calculate_splits(receipt, friends): the dictionary it returns, or the
\* exception that leaves it.
_calculate_splits(r, friends) ==
    LET t == ItemLoop(Trackers(friends), r.items, 1)
    IN SplitsData(r, t, IF t.error # "none" THEN <<>>
                        ELSE TotalsOf(friends, t, r.tax, r.service_charge))

\* ------------------------------------------- calculate_receipt_splits
NoResult == [outcome |-> "none"]

Init ==
    /\ receipt \in Receipts \cup {NoReceipt}
    /\ deleted_friends \in SUBSET AllFriends
    /\ receipt_friends \in UNION {Perms(S) : S \in SUBSET (AllFriends \ deleted_friends)}
    /\ pc = "start"
    /\ result = NoResult
    /\ invocations = <<>>
    /\ frames = <<>>
    /\ tally = <<>>
    /\ totals_list = <<>>
    /\ stored_receipt = NoReceipt
    /\ request = <<>>
    /\ response = <<>>
    /\ StoreIdle

\* get_with_items found no receipt: the ReceiptNotFoundError is built
\* without its required user_id argument, so a TypeError is raised instead
\* and passes through the handler for Exception.
CalculateReceiptNotFound ==
    /\ pc = "start"
    /\ receipt = NoReceipt
    /\ result' = [outcome |-> "raised", error |-> "TypeError", friend_id |-> 0]
    /\ pc' = "done"
    /\ UNCHANGED <<receipt, deleted_friends, receipt_friends, loop_vars, totals_vars,
                   http_vars, store_vars>>

\* No friend on the receipt: the ReceiptSplitCalculationError is built
\* without its required receipt_id argument, a TypeError again.
CalculateNoFriends ==
    /\ pc = "start"
    /\ receipt # NoReceipt
    /\ receipt_friends = <<>>
    /\ result' = [outcome |-> "raised", error |-> "TypeError", friend_id |-> 0]
    /\ pc' = "done"
    /\ UNCHANGED <<receipt, deleted_friends, receipt_friends, loop_vars, totals_vars,
                   http_vars, store_vars>>

\* _calculate_splits raises: the exception is logged and re-raised.
CalculateSplitsRaises ==
    /\ pc = "start"
    /\ receipt # NoReceipt
    /\ receipt_friends # <<>>
    /\ LET data == _calculate_splits(receipt, receipt_friends)
       IN /\ data.error # "none"
          /\ result' = [outcome |-> "raised", error |-> data.error,
                        friend_id |-> data.friend_id]
    /\ pc' = "done"
    /\ UNCHANGED <<receipt, deleted_friends, receipt_friends, loop_vars, totals_vars,
                   http_vars, store_vars>>

\* _calculate_splits returns: CalculateSplitsResult(success=True, data=...).
CalculateSplitsSucceeds ==
    /\ pc = "start"
    /\ receipt # NoReceipt
    /\ receipt_friends # <<>>
    /\ LET data == _calculate_splits(receipt, receipt_friends)
       IN /\ data.error = "none"
          /\ result' = [outcome |-> "success", data |-> data]
    /\ pc' = "done"
    /\ UNCHANGED <<receipt, deleted_friends, receipt_friends, loop_vars, totals_vars,
                   http_vars, store_vars>>

Next ==
    \/ CalculateReceiptNotFound
    \/ CalculateNoFriends
    \/ CalculateSplitsRaises
    \/ CalculateSplitsSucceeds

Spec == Init /\ [][Next]_vars


\* ------------------------------------------------------------ the claims
Succeeded == pc = "done" /\ result.outcome = "success"

Raised == pc = "done" /\ result.outcome = "raised"

\* The computation was entered: a receipt was found and has a friend.
Entered == pc = "done" /\ receipt # NoReceipt /\ receipt_friends # <<>>

NonNegativeInputs ==
    /\ receipt.total_amount >= 0
    /\ receipt.tax >= 0
    /\ receipt.service_charge >= 0
    /\ \A k \in DOMAIN receipt.items : receipt.items[k].unit_price >= 0

\* The items of the receipt a friend is assigned to.
AssignedItems(f) ==
    {k \in DOMAIN receipt.items : f \in Range(AssociatedFriends(receipt.items[k]))}

\* Some item is assigned to a friend that is not on the receipt.
UnknownReference ==
    \E k \in DOMAIN receipt.items :
        \E f \in Range(AssociatedFriends(receipt.items[k])) :
            f \notin Range(receipt_friends)

ZeroQuantity == \E k \in DOMAIN receipt.items : receipt.items[k].quantity = 0

Totals == result.data.totals

SumOfTotals == SumSeq([i \in DOMAIN Totals |-> Totals[i].total])

SumOfSubtotals == SumSeq([i \in DOMAIN Totals |-> Totals[i].subtotal])

SumOfCosts ==
    SumSeq([k \in DOMAIN receipt.items |-> receipt.items[k].unit_price])

AssignedCount(k) == Len(AssociatedFriends(receipt.items[k]))

SumOfAssignedCosts ==
    SumSeq([k \in DOMAIN receipt.items |->
               IF AssignedCount(k) >= 1 THEN receipt.items[k].unit_price ELSE 0])

NumberOfAssignments ==
    SumSeq([k \in DOMAIN receipt.items |-> AssignedCount(k)])

\* No assigned item's cost is rounded when it is divided between its friends.
NoItemRounding ==
    \A k \in DOMAIN receipt.items :
        AssignedCount(k) >= 1 => receipt.items[k].unit_price % AssignedCount(k) = 0

\* C3 as stated: the per-friend subtotals sum to at most the sum of the
\* item costs, with equality iff every item has an assigned friend.
C3_SubtotalsAtMostCosts ==
    (Succeeded /\ NonNegativeInputs) =>
        /\ SumOfSubtotals <= SumOfCosts
        /\ SumOfSubtotals = SumOfCosts
              <=> \A k \in DOMAIN receipt.items : AssignedCount(k) >= 1

\* C3 amended: the per-friend subtotals sum to within half a cent per
\* assignment of the summed cost of the assigned items, and so may exceed
\* the sum of the item costs; when no assigned item's cost is rounded in
\* its division and the costs are non-negative, the subtotals sum to at
\* most the sum of the item costs, with equality iff every item of
\* non-zero cost has an assigned friend.
C3_SubtotalsWithinRounding ==
    Succeeded =>
        /\ 2 * Abs(SumOfSubtotals - SumOfAssignedCosts) <= NumberOfAssignments
        /\ (NonNegativeInputs /\ NoItemRounding) =>
              /\ SumOfSubtotals <= SumOfCosts
              /\ SumOfSubtotals = SumOfCosts
                    <=> \A k \in DOMAIN receipt.items :
                            AssignedCount(k) >= 1 \/ receipt.items[k].unit_price = 0

C3_Witness ==
    /\ Succeeded
    /\ NonNegativeInputs
    /\ \A k \in DOMAIN receipt.items : AssignedCount(k) >= 1
    /\ SumOfSubtotals > SumOfCosts

\* C4 as stated: an item assigned to a friend that is not on the receipt
\* makes the computation fail with an UnknownFriendReference error.
C4_UnknownFriendReferenceRaised ==
    (Entered /\ NonNegativeInputs /\ ~ZeroQuantity /\ UnknownReference) =>
        Raised /\ result.error = "UnknownFriendReference"

\* C5 as stated: a negative cost, tax, service charge or grand total is
\* rejected with an InvalidInput error and no result is returned.
C5_NegativeInputRejected ==
    (Entered /\ ~NonNegativeInputs) =>
        Raised /\ result.error = "InvalidInput"

C7_ValidInputCompletes ==
    (Entered /\ NonNegativeInputs /\ ~UnknownReference) => Succeeded

\* C8: with non-negative inputs no field of any entry of the totals list is
\* negative, also when total_amount is below the sum of the totals.
C8_NoNegativeShare ==
    (Succeeded /\ NonNegativeInputs) =>
        \A i \in DOMAIN Totals :
            /\ Totals[i].subtotal >= 0
            /\ Totals[i].tax >= 0
            /\ Totals[i].service_charge >= 0
            /\ Totals[i].total >= 0

C8_Witness ==
    /\ Succeeded
    /\ NonNegativeInputs
    /\ receipt.total_amount < SumOfTotals
    /\ \E i \in DOMAIN Totals : Totals[i].tax > 0 /\ Totals[i].subtotal > 0

\* The order the specification gives: subtotal descending, ties by
\* ascending friend id.
SortedBySubtotal(totals) ==
    \A i, j \in DOMAIN totals :
        i < j =>
            \/ totals[i].subtotal > totals[j].subtotal
            \/ /\ totals[i].subtotal = totals[j].subtotal
               /\ totals[i].id < totals[j].id

IsFirstInOrder(i) ==
    \A j \in DOMAIN Totals \ {i} :
        \/ Totals[i].subtotal > Totals[j].subtotal
        \/ /\ Totals[i].subtotal = Totals[j].subtotal
           /\ Totals[i].id < Totals[j].id

UnadjustedTotal(i) ==
    Totals[i].subtotal + Totals[i].tax + Totals[i].service_charge

\* The grand total minus the sum of the unadjusted totals.
Residual ==
    receipt.total_amount - SumSeq([i \in DOMAIN Totals |-> UnadjustedTotal(i)])

MaxLoopItems == 2

Calls == {1, 2}

LoopItemBodies ==
    [unit_price : {MaxPrice}, quantity : {1},
     item_friends : [AllFriends -> {"none", "active"}]]

\* The receipt of call c; its id is c, so the two receipts differ.
LoopReceipts(c) ==
    {[id |-> c, total_amount |-> MaxTotal, tax |-> MaxTax,
      service_charge |-> MaxService, items |-> WithIds(b)] :
        b \in SeqsUpTo(LoopItemBodies, MaxLoopItems)}

LoopFriends == SortedSeq(AllFriends)

IdleFrame ==
    [pc |-> "idle", k |-> 0, trackers |-> Trackers(<<>>),
     result |-> NoResult, overlapped |-> FALSE]

\* Mutant: receipt_subtotal is one variable shared by all the calls.
StoreFrame_SharedSubtotal(fs, c, frame) ==
    [d \in DOMAIN fs |->
        IF d = c THEN frame
        ELSE [fs[d] EXCEPT
                !.trackers.receipt_subtotal = frame.trackers.receipt_subtotal]]

\* A call writes its local variables: the frame of call c and no other.
StoreFrame(fs, c, frame) == [fs EXCEPT ![c] = frame]

\* Another call is between its first and its last statement.
OtherInFlight(c) == \E d \in Calls \ {c} : frames[d].pc = "loop"

InitLoop ==
    /\ invocations \in
          {[c \in Calls |-> [receipt |-> rs[c], friends |-> LoopFriends]] :
              rs \in [Calls -> UNION {LoopReceipts(c) : c \in Calls}]}
    /\ \A c \in Calls : invocations[c].receipt.id = c
    /\ frames = [c \in Calls |-> IdleFrame]
    /\ receipt = NoReceipt
    /\ deleted_friends = {}
    /\ receipt_friends = <<>>
    /\ pc = "idle"
    /\ result = NoResult
    /\ tally = <<>>
    /\ totals_list = <<>>
    /\ stored_receipt = NoReceipt
    /\ request = <<>>
    /\ response = <<>>
    /\ StoreIdle

\* The call is entered and its trackers are created.
PrepareTrackers(c) ==
    /\ frames[c].pc = "idle"
    /\ frames' = StoreFrame(frames, c,
          [frames[c] EXCEPT
              !.pc = "loop", !.k = 1,
              !.trackers = Trackers(invocations[c].friends),
              !.overlapped = @ \/ OtherInFlight(c)])
    /\ UNCHANGED <<invocations, receipt, deleted_friends, receipt_friends,
                   pc, result, totals_vars, http_vars, store_vars>>

\* One pass of the loop over the receipt's items; an exception leaves the
\* call.
LoopOverItem(c) ==
    /\ frames[c].pc = "loop"
    /\ frames[c].k <= Len(invocations[c].receipt.items)
    /\ LET t == ProcessItem(frames[c].trackers,
                            invocations[c].receipt.items[frames[c].k])
       IN frames' = StoreFrame(frames, c,
             IF t.error # "none"
             THEN [frames[c] EXCEPT
                     !.pc = "done", !.trackers = t,
                     !.result = SplitsData(invocations[c].receipt, t, <<>>),
                     !.overlapped = @ \/ OtherInFlight(c)]
             ELSE [frames[c] EXCEPT
                     !.k = @ + 1, !.trackers = t,
                     !.overlapped = @ \/ OtherInFlight(c)])
    /\ UNCHANGED <<invocations, receipt, deleted_friends, receipt_friends,
                   pc, result, totals_vars, http_vars, store_vars>>

\* After the last item: the totals and the summary are built and returned.
BuildTotals(c) ==
    /\ frames[c].pc = "loop"
    /\ frames[c].k > Len(invocations[c].receipt.items)
    /\ LET r == invocations[c].receipt
           t == frames[c].trackers
       IN frames' = StoreFrame(frames, c,
             [frames[c] EXCEPT
                 !.pc = "done",
                 !.result = SplitsData(r, t,
                     TotalsOf(invocations[c].friends, t, r.tax,
                              r.service_charge)),
                 !.overlapped = @ \/ OtherInFlight(c)])
    /\ UNCHANGED <<invocations, receipt, deleted_friends, receipt_friends,
                   pc, result, totals_vars, http_vars, store_vars>>

NextLoop ==
    \/ \E c \in Calls : PrepareTrackers(c)
    \/ \E c \in Calls : LoopOverItem(c)
    \/ \E c \in Calls : BuildTotals(c)

SpecLoop == InitLoop /\ [][NextLoop]_vars

\* C11: a split computation that runs interleaved with the computation for
\* another receipt returns the result it returns when run alone, and no
\* step of one call changes a local variable of the other.
C11_InterleavedCallsIndependent ==
    \A c \in Calls :
        /\ frames[c].pc = "done" =>
              frames[c].result =
                  _calculate_splits(invocations[c].receipt,
                                    invocations[c].friends)
        /\ frames[c].pc = "idle" => frames[c].trackers = Trackers(<<>>)
        /\ frames[c].pc = "loop" =>
              frames[c].trackers =
                  ItemLoop(Trackers(invocations[c].friends),
                           SubSeq(invocations[c].receipt.items, 1,
                                  frames[c].k - 1), 1)

C11_Witness ==
    /\ \A c \in Calls :
          /\ frames[c].pc = "done"
          /\ frames[c].overlapped
          /\ Len(invocations[c].receipt.items) = MaxLoopItems
          /\ frames[c].result.summary.subtotal > 0
    /\ frames[1].result.totals # frames[2].result.totals


\* The sum of the costs of the first m items of a receipt.
CostOfItems(r, m) == SumSeq([k \in 1..m |-> r.items[k].unit_price])

\* The friends item k of a receipt is linked to.
FriendsOfItem(r, k) == Range(AssociatedFriends(r.items[k]))

\* C19: an item with no assigned friend adds its full cost to the receipt
\* subtotal and nothing to any friend's subtotal or item list, in the
\* trackers after each pass of the loop and in the result; the summary
\* subtotal is the sum of the costs of all the items, assigned or not.
C19_UnassignedItemCountsInBaseline ==
    \A c \in Calls :
        LET r == invocations[c].receipt
            t == frames[c].trackers
            done == IF frames[c].pc = "idle" THEN 0 ELSE frames[c].k - 1
        IN /\ frames[c].pc # "idle" =>
                /\ t.receipt_subtotal = CostOfItems(r, done)
                /\ \A f \in DOMAIN t.friend_subtotals :
                      /\ \A j \in DOMAIN t.per_item_share_by_friend[f] :
                            f \in FriendsOfItem(r,
                                t.per_item_share_by_friend[f][j].item_id)
                      /\ t.friend_subtotals[f] =
                            SumSeq([j \in DOMAIN t.per_item_share_by_friend[f]
                                       |-> t.per_item_share_by_friend[f][j].share])
                /\ \A k \in 1..done :
                      FriendsOfItem(r, k) = {} => t.items[k].friends = <<>>
           /\ frames[c].pc = "done" =>
                /\ frames[c].result.summary.subtotal = CostOfItems(r, Len(r.items))
                /\ \A i \in DOMAIN frames[c].result.totals :
                      \A j \in DOMAIN frames[c].result.totals[i].items :
                          frames[c].result.totals[i].id \in
                              FriendsOfItem(r,
                                  frames[c].result.totals[i].items[j].item_id)

C19_Witness ==
    /\ frames[1].pc = "done"
    /\ Len(invocations[1].receipt.items) = 2
    /\ FriendsOfItem(invocations[1].receipt, 1) = {1}
    /\ FriendsOfItem(invocations[1].receipt, 2) = {}
    /\ frames[1].result.summary.subtotal =
          2 * frames[1].result.totals[1].subtotal
    /\ frames[1].result.totals[1].subtotal > 0
    /\ frames[1].result.totals[2].subtotal = 0
    /\ Len(frames[1].result.totals[1].items) = 1

\* ------------------------------------------- the loop that builds the totals
\* The receipts this loop is followed on have one item of friend 1, one
\* item of friend 2 and one item of nobody, so that the two subtotals and
\* the receipt subtotal take every combination up to MaxBaseline cents, and
\* a tax of up to MaxAllocTax cents.
MaxBaseline == 14
MaxAllocTax == 21

AllocTaxes == (0 - 1)..MaxAllocTax

AllocFriends == SortedSeq(AllFriends)

Link(S) == [f \in AllFriends |-> IF f \in S THEN "active" ELSE "none"]

AllocItems(p1, p2, u) ==
    WithIds(<<[unit_price |-> p1, quantity |-> 1, item_friends |-> Link({1})],
              [unit_price |-> p2, quantity |-> 1, item_friends |-> Link({2})],
              [unit_price |-> u, quantity |-> 1, item_friends |-> Link({})]>>)

\* The trackers after the item loop, for every such receipt.
AllocTrackers ==
    UNION {UNION {{ItemLoop(Trackers(AllocFriends), AllocItems(p1, p2, u), 1) :
                      u \in 0..(MaxBaseline - p1 - p2)} :
                  p2 \in 0..(MaxBaseline - p1)} :
           p1 \in 0..MaxBaseline}

InitTotals ==
    /\ deleted_friends = {}
    /\ \E t \in AllocTrackers :
          tally \in [tax : AllocTaxes, service_charge : ServiceCharges,
                     trackers : {t}]
    /\ totals_list = <<>>
    /\ receipt = NoReceipt
    /\ receipt_friends = <<>>
    /\ pc = "idle"
    /\ result = NoResult
    /\ invocations = <<>>
    /\ frames = <<>>
    /\ stored_receipt = NoReceipt
    /\ request = <<>>
    /\ response = <<>>
    /\ StoreIdle

\* One pass of the loop over the friends: the next friend's entry is
\* appended to the totals.
AppendFriendTotal ==
    /\ tally # <<>>
    /\ Len(totals_list) < Len(AllocFriends)
    /\ totals_list' = Append(totals_list,
          FriendTotal(AllocFriends[Len(totals_list) + 1], tally.trackers,
                      tally.tax, tally.service_charge))
    /\ UNCHANGED <<tally, receipt, deleted_friends, receipt_friends, pc,
                   result, loop_vars, http_vars, store_vars>>

NextTotals == AppendFriendTotal

SpecTotals == InitTotals /\ [][NextTotals]_vars

TotalsBuilt == tally # <<>> /\ Len(totals_list) = Len(AllocFriends)

\* C12 as stated: in every split result, a friend whose subtotal is
\* strictly greater than another friend's is allocated at least as much
\* tax as that friend.
C12_TaxMonotoneInSubtotal ==
    TotalsBuilt =>
        \A i, j \in DOMAIN totals_list :
            totals_list[i].subtotal > totals_list[j].subtotal =>
                totals_list[i].tax >= totals_list[j].tax

\* C12 for the receipts whose tax is not negative, where it holds.
C12_TaxMonotoneForNonNegativeTax ==
    tally # <<>> /\ tally.tax >= 0 => C12_TaxMonotoneInSubtotal

\* The share of an amount for the subtotal s out of the baseline, the
\* quotient amount * s / baseline being rounded once, half-up to cents.
ExactShare(amount, s, baseline) ==
    IF baseline = 0 THEN 0 ELSE _round2(amount * s, baseline)

\* C20 as stated: each friend's tax share is tax * s / baseline rounded
\* half-up to cents and the service share is service_charge * s / baseline
\* rounded half-up to cents, the ratio not being rounded before the
\* multiplication; with a baseline of 0 both shares are 0.
C20_SharesRoundedOnce ==
    \A i \in DOMAIN totals_list :
        /\ totals_list[i].tax =
              ExactShare(tally.tax, totals_list[i].subtotal,
                         tally.trackers.receipt_subtotal)
        /\ totals_list[i].service_charge =
              ExactShare(tally.service_charge, totals_list[i].subtotal,
                         tally.trackers.receipt_subtotal)

\* C20 with a baseline of 0: both shares are 0, and nothing is divided.
C20_ZeroBaselineZeroShares ==
    tally # <<>> /\ tally.trackers.receipt_subtotal = 0 =>
        \A i \in DOMAIN totals_list :
            totals_list[i].tax = 0 /\ totals_list[i].service_charge = 0

\* ------------------------------------------------------ the HTTP application
\* main.py builds the application: FastAPI() with no middleware added, and
\* the routers of these prefixes.
InstalledMiddleware == {}

InstalledRouters == {"/auth", "/users", "/friends", "/receipts", "/ai"}

\* The columns and relationships of the Receipt model and AuditMixin.
ReceiptAttributes ==
    {"id", "restaurant_name", "total_amount", "tax", "service_charge",
     "currency", "receipt_url", "user_id", "items", "user", "friends",
     "is_deleted", "created_at", "updated_at", "deleted_at"}

\* The methods of ReceiptRepository and of the BaseRepository it extends.
ReceiptRepositoryMethods ==
    {"get_by_user", "get_by_user_with_relationships", "get_by_id_and_user",
     "get_multiple_by_ids_and_user", "get_with_items", "create_receipt",
     "search_by_restaurant", "get_user_receipt_count", "delete_with_items",
     "create", "get_by_id", "get_multi", "update", "delete", "count",
     "exists"}

MaxReadItems == 1

Users == {1, 2}

ReceiptIds == {1, 2}

ReadItemBodies ==
    [unit_price : {MaxPrice}, quantity : {1},
     item_friends : [AllFriends -> LinkStates]]

\* The receipt row of id 1, with its owner and its soft-delete flag.
StoredReceipts ==
    {[id |-> 1, user_id |-> o, is_deleted |-> d, total_amount |-> MaxTotal,
      tax |-> MaxTax, service_charge |-> MaxService, items |-> WithIds(b)] :
        o \in Users, d \in BOOLEAN,
        b \in SeqsUpTo(ReadItemBodies, MaxReadItems)}

\* ReceiptRepository.get_by_id_and_user: the row of that id, owned by that
\* user and not soft-deleted, or None.
get_by_id_and_user(receipt_id, user_id) ==
    IF /\ stored_receipt.id = receipt_id
       /\ stored_receipt.user_id = user_id
       /\ ~stored_receipt.is_deleted
    THEN stored_receipt
    ELSE NoReceipt

\* The items of the ReceiptRead built by _convert_receipt_to_schema: each
\* item with the friends of its links, soft-deleted links and deleted
\* friends left out.
ItemsData(r) ==
    [k \in DOMAIN r.items |->
        [item_id |-> r.items[k].id, quantity |-> r.items[k].quantity,
         unit_price |-> r.items[k].unit_price,
         friends |-> AssociatedFriends(r.items[k])]]

\* The attributes of the receipt that _convert_receipt_to_schema reads
\* without a default, in the order it reads them.
AttributesRead ==
    <<"items", "friends", "id", "user_id", "restaurant_name", "subtotal",
      "total_amount", "tax", "service_charge", "currency", "receipt_url",
      "created_at", "updated_at">>

\* _convert_receipt_to_schema: the ReceiptRead, or the AttributeError of
\* the first attribute that the Receipt model does not have.
_convert_receipt_to_schema(r) ==
    LET missing == {i \in DOMAIN AttributesRead :
                        AttributesRead[i] \notin ReceiptAttributes}
    IN IF missing # {}
       THEN [error |-> "AttributeError",
             attribute |-> AttributesRead[Min(missing)]]
       ELSE [error |-> "none", id |-> r.id, user_id |-> r.user_id,
             total_amount |-> r.total_amount, tax |-> r.tax,
             service_charge |-> r.service_charge, items |-> ItemsData(r)]

\* ReceiptService.get_receipt_by_id: the GetReceiptResult, or the exception
\* that it logs and raises again.
get_receipt_by_id(receipt_id, user_id) ==
    LET r == get_by_id_and_user(receipt_id, user_id)
        receipt_data == _convert_receipt_to_schema(r)
    IN IF r = NoReceipt
       THEN [raised |-> "none", success |-> FALSE,
             error_code |-> "RECEIPT_NOT_FOUND",
             message |-> "Receipt not found or access denied"]
       ELSE IF receipt_data.error # "none"
       THEN [raised |-> receipt_data.error]
       ELSE [raised |-> "none", success |-> TRUE, data |-> receipt_data]

\* The response that leaves the application: the handler's response passed
\* through the installed middleware.  RequestLoggingMiddleware.dispatch adds
\* the X-Correlation-ID header to a response that call_next returned.
Send(resp) ==
    IF /\ "RequestLoggingMiddleware" \in InstalledMiddleware
       /\ ~resp.unhandled
    THEN [status |-> resp.status, body |-> resp.body,
          headers |-> resp.headers \cup {"X-Correlation-ID"}]
    ELSE [status |-> resp.status, body |-> resp.body, headers |-> resp.headers]

\* A response built by FastAPI from a returned value or an HTTPException.
JSONResponse(status, body) ==
    [status |-> status, body |-> body, unhandled |-> FALSE,
     headers |-> {"content-length", "content-type"}]

\* An exception that no handler catches: the server's 500 response.
ServerError ==
    [status |-> 500, body |-> "Internal Server Error", unhandled |-> TRUE,
     headers |-> {"content-length", "content-type"}]

InitHttp ==
    /\ stored_receipt \in StoredReceipts
    /\ deleted_friends \in SUBSET AllFriends
    /\ request = <<>>
    /\ response = <<>>
    /\ StoreIdle
    /\ receipt = NoReceipt
    /\ receipt_friends = <<>>
    /\ pc = "idle"
    /\ result = NoResult
    /\ invocations = <<>>
    /\ frames = <<>>
    /\ tally = <<>>
    /\ totals_list = <<>>

\* GET /receipts/{receipt_id}: retrieve_receipt_by_id.
RetrieveReceiptById(user, receipt_id) ==
    /\ "/receipts" \in InstalledRouters
    /\ request' = [method |-> "GET", path |-> "/receipts/{receipt_id}",
                   receipt_id |-> receipt_id, user |-> user]
    /\ LET res == get_receipt_by_id(receipt_id, user)
       IN response' = Send(
             IF res.raised # "none" THEN ServerError
             ELSE IF ~res.success
                  THEN IF res.error_code = "RECEIPT_NOT_FOUND"
                       THEN JSONResponse(404, [detail |-> res.message])
                       ELSE JSONResponse(400, [detail |-> res.message])
                  ELSE JSONResponse(200, res.data))
    /\ UNCHANGED <<stored_receipt, receipt, deleted_friends, receipt_friends,
                   pc, result, loop_vars, totals_vars, store_vars>>

\* POST /receipts: upload_and_analyze_receipt_image.  The file is checked,
\* stored by the file service (which may fail), and then the receipt is to
\* be created by ReceiptRepository.create_minimal_receipt.
UploadAndAnalyzeReceiptImage(user, is_image_type, opens_as_image, upload_ok) ==
    /\ "/receipts" \in InstalledRouters
    /\ request' = [method |-> "POST", path |-> "/receipts", user |-> user,
                   valid_image |-> is_image_type /\ opens_as_image,
                   stored |-> is_image_type /\ opens_as_image /\ upload_ok]
    /\ response' = Send(
          IF ~is_image_type
          THEN JSONResponse(400, [detail |-> "Only image files are accepted."])
          ELSE IF ~opens_as_image
          THEN JSONResponse(400, [detail |-> "Invalid image file."])
          ELSE IF ~upload_ok
          THEN JSONResponse(500, [detail |-> "File upload failed"])
          ELSE IF \/ "create_minimal_receipt" \notin ReceiptRepositoryMethods
                  \/ {"subtotal", "status"} \ ReceiptAttributes # {}
          THEN ServerError
          ELSE JSONResponse(201, [id |-> 2, user_id |-> user,
                                  status |-> "processing", items |-> <<>>]))
    /\ UNCHANGED <<stored_receipt, receipt, deleted_friends, receipt_friends,
                   pc, result, loop_vars, totals_vars, store_vars>>

\* A request whose path is under no installed router: 404 Not Found.
NoRouteMatches(user, prefix, path) ==
    /\ prefix \notin InstalledRouters
    /\ request' = [method |-> "GET", path |-> path, user |-> user]
    /\ response' = Send(JSONResponse(404, [detail |-> "Not Found"]))
    /\ UNCHANGED <<stored_receipt, receipt, deleted_friends, receipt_friends,
                   pc, result, loop_vars, totals_vars, store_vars>>

NextHttp ==
    \/ \E u \in Users, id \in ReceiptIds : RetrieveReceiptById(u, id)
    \/ \E u \in Users, t, o, k \in BOOLEAN :
          UploadAndAnalyzeReceiptImage(u, t, o, k)
    \/ \E u \in Users : NoRouteMatches(u, "/jobs", "/jobs/{job_id}")
    \/ \E u \in Users :
          NoRouteMatches(u, "/this-path-does-not-exist",
                         "/this-path-does-not-exist")

SpecHttp == InitHttp /\ [][NextHttp]_vars

\* The request served was GET /receipts/{id} for the stored receipt, which
\* is not soft-deleted.
ReadOfStoredReceipt ==
    /\ request # <<>>
    /\ request.path = "/receipts/{receipt_id}"
    /\ request.receipt_id = stored_receipt.id
    /\ ~stored_receipt.is_deleted

ReadByOwner == ReadOfStoredReceipt /\ request.user = stored_receipt.user_id

\* C13 as stated: a user other than the owner gets 404 and none of the
\* receipt's data; the owner gets the receipt.
C13_ReceiptVisibleOnlyToOwner ==
    ReadOfStoredReceipt =>
        IF request.user = stored_receipt.user_id
        THEN response.status = 200 /\ response.body.id = stored_receipt.id
        ELSE /\ response.status = 404
             /\ response.body = [detail |-> "Receipt not found or access denied"]

\* The half of C13 that holds: a user other than the owner gets 404 and a
\* body that carries only the error message.
C13_NotFoundForOtherUser ==
    (ReadOfStoredReceipt /\ request.user # stored_receipt.user_id) =>
        /\ response.status = 404
        /\ response.body = [detail |-> "Receipt not found or access denied"]

\* The friends an item is to list: those with a link to the item that is
\* not soft-deleted and whose friend is not deleted.
LinkedFriends(item) ==
    {f \in DOMAIN item.item_friends :
        item.item_friends[f] = "active" /\ f \notin deleted_friends}

\* C14 as stated: when the receipt is read, each item lists exactly the
\* friends linked to it by a non-deleted link to a non-deleted friend.
C14_ItemsListLinkedFriends ==
    ReadByOwner =>
        /\ response.status = 200
        /\ DOMAIN response.body.items = DOMAIN stored_receipt.items
        /\ \A k \in DOMAIN stored_receipt.items :
              Range(response.body.items[k].friends) =
                  LinkedFriends(stored_receipt.items[k])

\* What _convert_receipt_to_schema has computed for the items before it
\* fails: each item with exactly its linked friends.
C14_ItemsDataListsLinkedFriends ==
    stored_receipt # NoReceipt =>
        \A k \in DOMAIN stored_receipt.items :
            Range(ItemsData(stored_receipt)[k].friends) =
                LinkedFriends(stored_receipt.items[k])

\* C15 as stated: the upload of a valid image, once stored, is answered
\* with 202 and a body that contains job_id.
C15_UploadAcceptedWithJob ==
    (request # <<>> /\ request.path = "/receipts"
        /\ request.valid_image /\ request.stored) =>
            response.status = 202 /\ "job_id" \in DOMAIN response.body

\* C16 as stated: every response carries an X-Correlation-ID header.
C16_EveryResponseHasCorrelationId ==
    response # <<>> => "X-Correlation-ID" \in response.headers

\* ------------------------------------------------- the split of one item
\* The split computation of receipts with one item of up to MaxCost cents
\* and up to MaxQuantity units, linked to any of MaxSplit friends.
MaxCost == 6
MaxQuantity == 3
MaxSplit == 4

SplitFriends == 1..MaxSplit

ItemReceipts ==
    {[id |-> 1, total_amount |-> MaxTotal, tax |-> MaxTax,
      service_charge |-> MaxService,
      items |-> WithIds(<<[unit_price |-> c, quantity |-> q,
                           item_friends |-> l]>>)] :
        c \in (0 - 1)..MaxCost, q \in 0..MaxQuantity,
        l \in [SplitFriends -> {"none", "active"}]}

InitItem ==
    /\ receipt \in ItemReceipts \cup {NoReceipt}
    /\ deleted_friends = {}
    /\ receipt_friends \in {<<>>, SortedSeq(SplitFriends)}
    /\ pc = "start"
    /\ result = NoResult
    /\ invocations = <<>>
    /\ frames = <<>>
    /\ tally = <<>>
    /\ totals_list = <<>>
    /\ stored_receipt = NoReceipt
    /\ request = <<>>
    /\ response = <<>>
    /\ StoreIdle

SpecItem == InitItem /\ [][Next]_vars

\* s is the quotient c / n rounded to a whole number of cents, a tie going
\* away from zero (Decimal's ROUND_HALF_UP).
IsHalfUp(s, c, n) ==
    IF c >= 0 THEN 2 * n * s - n <= 2 * c /\ 2 * c < 2 * n * s + n
    ELSE 2 * n * s + n >= 2 * c /\ 2 * c > 2 * n * s - n

\* The shares that the result lists for item k, one per assigned friend.
SharesOfItem(k) ==
    [i \in DOMAIN result.data.items[k].friends |->
        result.data.items[k].friends[i].share]

\* C17: in every result, each friend assigned to an item of cost c with n
\* assigned friends has the same share of it, c / n rounded half-up to
\* cents, whatever the item's quantity; the same share is in the item
\* list of the friend's entry of the totals.
C17_EqualHalfUpShare ==
    Succeeded =>
        \A k \in DOMAIN receipt.items :
            LET c == receipt.items[k].unit_price
                n == AssignedCount(k)
            IN /\ Len(SharesOfItem(k)) = n
               /\ \A i \in DOMAIN SharesOfItem(k) :
                     IsHalfUp(SharesOfItem(k)[i], c, n)
               /\ \A i \in DOMAIN Totals :
                     \A j \in DOMAIN Totals[i].items :
                         Totals[i].items[j].item_id = receipt.items[k].id =>
                             IsHalfUp(Totals[i].items[j].share, c, n)

C17_Witness ==
    /\ Succeeded
    /\ receipt.items[1].quantity = 3
    /\ receipt.items[1].unit_price = 5
    /\ AssignedCount(1) = 3
    /\ \A i \in DOMAIN SharesOfItem(1) : SharesOfItem(1)[i] = 2

\* C18 as stated: n times the per-friend share differs from the cost by at
\* most one cent.
C18_DriftAtMostOneCent ==
    (Succeeded /\ NonNegativeInputs) =>
        \A k \in DOMAIN receipt.items :
            \A i \in DOMAIN SharesOfItem(k) :
                Abs(AssignedCount(k) * SharesOfItem(k)[i]
                    - receipt.items[k].unit_price) <= 1

\* C18 amended: n times the per-friend share differs from the cost by at
\* most half a cent per assigned friend, n / 2 cents; that is at most one
\* cent when n <= 3.
C18_DriftAtMostHalfCentPerFriend ==
    Succeeded =>
        \A k \in DOMAIN receipt.items :
            \A i \in DOMAIN SharesOfItem(k) :
                LET n == AssignedCount(k)
                    drift == Abs(n * SharesOfItem(k)[i]
                                 - receipt.items[k].unit_price)
                IN 2 * drift <= n /\ (n <= 3 => drift <= 1)

C18_Witness ==
    /\ Succeeded
    /\ NonNegativeInputs
    /\ AssignedCount(1) = 4
    /\ receipt.items[1].unit_price = 2
    /\ \A i \in DOMAIN SharesOfItem(1) : SharesOfItem(1)[i] = 1

\* ------------------------------------------------- run_in_transaction
\* The split computation and the HTTP application take no part.
SplitIdle ==
    /\ receipt = NoReceipt
    /\ deleted_friends = {}
    /\ receipt_friends = <<>>
    /\ pc = "idle"
    /\ result = NoResult
    /\ invocations = <<>>
    /\ frames = <<>>
    /\ tally = <<>>
    /\ totals_list = <<>>
    /\ stored_receipt = NoReceipt
    /\ request = <<>>
    /\ response = <<>>

\* BaseService.run_in_transaction(db, operation), step by step.  db is the
\* session: the rows committed to the database, the rows flushed but not
\* committed, and the number of commit() and rollback() calls made on it.
\* task is the call: its position, the rows the operation wrote, how the
\* operation ended, and what was committed when the call began.
MaxRows == 3

Rows == 1..MaxRows

Exceptions == {"SQLAlchemyError", "ValueError"}

\* Session.commit(): everything flushed becomes committed.
commit(d) ==
    [d EXCEPT !.committed = d.committed \cup d.pending, !.pending = {},
              !.commits = @ + 1]

\* Session.commit() raising: commit was called, nothing became committed.
commit_raises(d) == [d EXCEPT !.commits = @ + 1]

\* Session.rollback(): everything flushed and not committed is discarded.
rollback(d) == [d EXCEPT !.pending = {}, !.rollbacks = @ + 1]

\* Mutant: the except clause keeps what the operation wrote.
ExceptClauses_Commit(d, e) == [db |-> commit(d), raised |-> e]

\* The except clauses of run_in_transaction: roll back, log, re-raise.
ExceptClauses(d, e) == [db |-> rollback(d), raised |-> e]

InitTxn ==
    /\ SplitIdle
    /\ \E c \in SUBSET Rows :
          db \in [committed : {c}, pending : SUBSET (Rows \ c),
                  commits : {0}, rollbacks : {0}]
    /\ task = [pc |-> "try", writes |-> {}, outcome |-> "none",
               error |-> "none",
               before |-> db.committed, raised |-> "none"]
    /\ socket = <<>>

\* result = operation(): the operation flushes its writes and returns or
\* raises.
CallOperation(writes, outcome) ==
    /\ task.pc = "try"
    /\ db' = [db EXCEPT !.pending = @ \cup writes]
    /\ task' = [task EXCEPT !.pc = IF outcome = "returns" THEN "commit"
                                   ELSE "except",
                            !.writes = writes,
                            !.outcome = outcome,
                            !.error = IF outcome = "returns" THEN "none"
                                      ELSE outcome]
    /\ UNCHANGED <<split_vars, socket>>

\* db.commit() followed by return result, or db.commit() raising.
CommitAndReturn(commit_ok) ==
    /\ task.pc = "commit"
    /\ db' = IF commit_ok THEN commit(db) ELSE commit_raises(db)
    /\ task' = IF commit_ok THEN [task EXCEPT !.pc = "returned"]
               ELSE [task EXCEPT !.pc = "except", !.error = "SQLAlchemyError"]
    /\ UNCHANGED <<split_vars, socket>>

\* except SQLAlchemyError / except Exception: rollback and raise.
RollbackAndRaise ==
    /\ task.pc = "except"
    /\ LET h == ExceptClauses(db, task.error)
       IN /\ db' = h.db
          /\ task' = [task EXCEPT !.pc = "raised", !.raised = h.raised]
    /\ UNCHANGED <<split_vars, socket>>

NextTxn ==
    \/ \E writes \in SUBSET Rows, outcome \in {"returns"} \cup Exceptions :
          CallOperation(writes, outcome)
    \/ \E commit_ok \in BOOLEAN : CommitAndReturn(commit_ok)
    \/ RollbackAndRaise

SpecTxn == InitTxn /\ [][NextTxn]_vars

\* C22: when the operation returns, commit is called exactly once, and
\* what it wrote is committed unless that commit itself raises; when the
\* operation raises, the session is rolled back without any commit,
\* nothing the operation wrote is committed, and the exception that
\* reaches the caller is the one the operation raised.
C22_CommitOnceOrRollback ==
    /\ task.outcome = "returns" /\ task.pc \in {"returned", "raised"} =>
          db.commits = 1
    /\ task.pc = "returned" =>
          /\ db.rollbacks = 0
          /\ task.before \subseteq db.committed
          /\ task.writes \subseteq db.committed
          /\ db.pending = {}
    /\ task.pc = "raised" =>
          /\ db.rollbacks = 1
          /\ db.committed = task.before
          /\ db.pending = {}
          /\ task.outcome \in Exceptions =>
                db.commits = 0 /\ task.raised = task.outcome

C22_Witness ==
    /\ task.pc = "raised"
    /\ db.commits = 0
    /\ task.raised = "ValueError"
    /\ task.writes \ task.before # {}
    /\ db.committed # {}

\* ------------------------------------------- the friends of an item
\* ItemFriendService on one item of the user.  db.item_friends is the
\* item_friends table restricted to the item, in the order of the row ids
\* (a row's id is its index); db.friends are the ids of the user's
\* non-deleted friends.  task is the last service call.
MaxAssociations == 4

MaxFriendIds == 2

\* The friend ids a request can name: those above the user's friends
\* belong to nobody or to another user.
FriendIds == 1..(MaxFriendIds + 1)

OwnFriends == 1..MaxFriendIds

FriendIdLists == SeqsUpTo(FriendIds, MaxFriendIds)

\* The validator of friend_ids: duplicates removed, order kept.
validate_friend_ids(v) ==
    SelectSeq([i \in DOMAIN v |->
                  IF \E j \in 1..(i - 1) : v[j] = v[i] THEN 0 ELSE v[i]],
              LAMBDA x : x # 0)

\* FriendRepository.get_by_ids_and_user: the user's non-deleted friends
\* among friend_ids, each once.
get_by_ids_and_user(friend_ids, friends) ==
    SortedSeq(Range(friend_ids) \cap friends)

\* _verify_friends_ownership: the ids found, or the error when an id of
\* the list was not found.
_verify_friends_ownership(friend_ids, friends) ==
    LET found_ids == get_by_ids_and_user(friend_ids, friends)
    IN IF friend_ids = <<>> THEN [error |-> "none", ids |-> <<>>]
       ELSE IF \E i \in DOMAIN friend_ids : friend_ids[i] \notin Range(found_ids)
       THEN [error |-> "ItemFriendsValidationError", ids |-> <<>>]
       ELSE [error |-> "none", ids |-> found_ids]

\* clear_item_friends: every non-deleted association is soft-deleted.
clear_item_friends(rows) ==
    [i \in DOMAIN rows |-> [rows[i] EXCEPT !.is_deleted = TRUE]]

\* remove_friends_from_item: the non-deleted associations of the listed
\* friends are soft-deleted.
remove_friends_from_item(rows, friend_ids) ==
    [i \in DOMAIN rows |->
        IF rows[i].friend_id \in Range(friend_ids)
        THEN [rows[i] EXCEPT !.is_deleted = TRUE] ELSE rows[i]]

\* add_friends_to_item of the repository: for each friend of the list in
\* turn, an association is created unless a non-deleted one exists.
RECURSIVE add_friends_to_item(_, _)
add_friends_to_item(rows, friend_ids) ==
    IF friend_ids = <<>> THEN rows
    ELSE LET existing == \E i \in DOMAIN rows :
                            /\ rows[i].friend_id = Head(friend_ids)
                            /\ ~rows[i].is_deleted
         IN add_friends_to_item(
                IF existing THEN rows
                ELSE Append(rows, [friend_id |-> Head(friend_ids),
                                   is_deleted |-> FALSE]),
                Tail(friend_ids))

\* Mutant: the new friends are added to those the item already has.
replace_item_friends_WithoutClear(rows, friend_ids) ==
    add_friends_to_item(rows, friend_ids)

\* replace_item_friends: clear, then add.
replace_item_friends(rows, friend_ids) ==
    add_friends_to_item(clear_item_friends(rows), friend_ids)

InitAssoc ==
    /\ SplitIdle
    /\ db = [item_friends |-> <<>>, friends |-> OwnFriends]
    /\ task = [op |-> "none", friend_ids |-> <<>>, outcome |-> "none"]
    /\ socket = <<>>

\* ItemFriendService.add_friends_to_item and update_item_friends, which
\* run the same operation in a transaction: verify the friends, replace.
ReplaceFriends(op, v) ==
    LET friend_ids == validate_friend_ids(v)
        valid == _verify_friends_ownership(friend_ids, db.friends)
        rows == replace_item_friends(db.item_friends, valid.ids)
    IN /\ valid.error = "none" => Len(rows) <= MaxAssociations
       /\ db' = IF valid.error = "none"
                THEN [db EXCEPT !.item_friends = rows] ELSE db
       /\ task' = [op |-> op, friend_ids |-> v,
                   outcome |-> IF valid.error = "none" THEN "success"
                               ELSE valid.error]
       /\ UNCHANGED <<split_vars, socket>>

\* ItemFriendService.remove_friends_from_item, with at least one id.
RemoveFriends(v) ==
    /\ v # <<>>
    /\ db' = [db EXCEPT !.item_friends =
                 remove_friends_from_item(@, validate_friend_ids(v))]
    /\ task' = [op |-> "remove_friends_from_item", friend_ids |-> v,
                outcome |-> "success"]
    /\ UNCHANGED <<split_vars, socket>>

NextAssoc ==
    \/ \E v \in FriendIdLists : ReplaceFriends("add_friends_to_item", v)
    \/ \E v \in FriendIdLists : ReplaceFriends("update_item_friends", v)
    \/ \E v \in FriendIdLists : RemoveFriends(v)

SpecAssoc == InitAssoc /\ [][NextAssoc]_vars

\* The non-deleted associations of the item with friend f.
ActiveAssociations(f) ==
    {i \in DOMAIN db.item_friends :
        db.item_friends[i].friend_id = f /\ ~db.item_friends[i].is_deleted}

\* C23: after a successful replace with the list F, whatever came before,
\* the item has exactly one non-deleted association for each friend of F
\* and none for any other friend; with an empty F it has none at all.
C23_ReplaceLeavesExactlyF ==
    (task.op \in {"add_friends_to_item", "update_item_friends"}
     /\ task.outcome = "success") =>
        \A f \in FriendIds :
            Cardinality(ActiveAssociations(f)) =
                (IF f \in Range(task.friend_ids) THEN 1 ELSE 0)

C23_Witness ==
    /\ task.op = "update_item_friends"
    /\ task.outcome = "success"
    /\ task.friend_ids = <<2, 2>>
    /\ Len(db.item_friends) = 4
    /\ db.item_friends[1] = [friend_id |-> 1, is_deleted |-> TRUE]
    /\ db.item_friends[2] = [friend_id |-> 2, is_deleted |-> TRUE]
    /\ ActiveAssociations(2) = {4}

C23_WitnessEmpty ==
    /\ task.op = "add_friends_to_item"
    /\ task.outcome = "success"
    /\ task.friend_ids = <<>>
    /\ Len(db.item_friends) = 2
    /\ \A i \in DOMAIN db.item_friends : db.item_friends[i].is_deleted

\* ------------------------------------------------------- job_status_ws
\* The websocket handler polling one job.  db.job is the jobs row the
\* handler reads (NoJob when there is none); task is the handler: its
\* position, whether the client presented a token, and last_payload;
\* socket is the connection: the events sent, whether the server closed it
\* and with which code, and whether the client is still connected.
NoJob == [status |-> "none", progress |-> 0]

Terminal == {"SUCCEEDED", "FAILED"}

\* The moves JobService makes on a job: start, progress, succeed, fail.
JobMoves(job) ==
    CASE job.status = "PENDING" ->
            {[status |-> "RUNNING", progress |-> 10],
             [status |-> "FAILED", progress |-> job.progress]}
      [] job.status = "RUNNING" ->
            {[status |-> "RUNNING", progress |-> 70],
             [status |-> "SUCCEEDED", progress |-> 100],
             [status |-> "FAILED", progress |-> job.progress]} \ {job}
      [] OTHER -> {}

Jobs ==
    {NoJob, [status |-> "PENDING", progress |-> 0]}
    \cup UNION {JobMoves(j) : j \in JobMoves([status |-> "PENDING", progress |-> 0])}
    \cup JobMoves([status |-> "PENDING", progress |-> 0])

\* Mutant: only a succeeded job ends the loop.
ExitsLoop_SucceededOnly(status) == status = "SUCCEEDED"

\* if job.status in ("SUCCEEDED", "FAILED"): close and return.
ExitsLoop(status) == status \in Terminal

send_json(sock, message) == [sock EXCEPT !.sent = Append(@, message)]

close(sock, code) == [sock EXCEPT !.closed = TRUE, !.code = code]

InitWs ==
    /\ SplitIdle
    /\ db \in [job : Jobs]
    /\ task \in [pc : {"accept"}, token : BOOLEAN, last_payload : {NoJob}]
    /\ socket = [sent |-> <<>>, closed |-> FALSE, code |-> 0,
                 connected |-> TRUE]

\* websocket.accept() and the token check.
AcceptAndCheckToken ==
    /\ task.pc = "accept"
    /\ IF task.token
       THEN /\ task' = [task EXCEPT !.pc = "poll"]
            /\ UNCHANGED socket
       ELSE /\ task' = [task EXCEPT !.pc = "returned"]
            /\ socket' = close(send_json(socket, [event |-> "unauthorized"]),
                               4401)
    /\ UNCHANGED <<split_vars, db>>

\* One pass of the loop up to the sleep: read the job, send what changed,
\* close on a terminal status.  A send to a client that has gone raises
\* WebSocketDisconnect, which ends the handler.
Poll ==
    /\ task.pc = "poll"
    /\ LET job == db.job
           changed == job # task.last_payload
       IN IF job = NoJob
          THEN /\ task' = [task EXCEPT !.pc = "returned"]
               /\ socket' = IF socket.connected
                            THEN close(send_json(socket,
                                           [event |-> "not_found"]), 1000)
                            ELSE socket
          ELSE IF changed /\ ~socket.connected
          THEN /\ task' = [task EXCEPT !.pc = "returned"]
               /\ UNCHANGED socket
          ELSE /\ task' = [task EXCEPT
                              !.pc = IF ExitsLoop(job.status) THEN "returned"
                                     ELSE "sleep",
                              !.last_payload = job]
               /\ socket' =
                     LET sent == IF changed
                                 THEN send_json(socket, [event |-> "update",
                                                         data |-> job])
                                 ELSE socket
                     IN IF ExitsLoop(job.status) THEN close(sent, 1000)
                        ELSE sent
    /\ UNCHANGED <<split_vars, db>>

\* await asyncio.sleep(1.0) returns.
Sleep ==
    /\ task.pc = "sleep"
    /\ task' = [task EXCEPT !.pc = "poll"]
    /\ UNCHANGED <<split_vars, db, socket>>

\* The background task moves the job and commits.
JobAdvances ==
    /\ \E j \in JobMoves(db.job) : db' = [db EXCEPT !.job = j]
    /\ UNCHANGED <<split_vars, task, socket>>

\* The client goes away.
ClientDisconnects ==
    /\ socket.connected
    /\ ~socket.closed
    /\ socket' = [socket EXCEPT !.connected = FALSE]
    /\ UNCHANGED <<split_vars, db, task>>

NextWs ==
    \/ AcceptAndCheckToken
    \/ Poll
    \/ Sleep
    \/ JobAdvances
    \/ ClientDisconnects

\* The event loop resumes the handler after each await.
SpecWs ==
    /\ InitWs
    /\ [][NextWs]_vars
    /\ WF_vars(AcceptAndCheckToken)
    /\ WF_vars(Poll)
    /\ WF_vars(Sleep)

\* The last event sent is an update carrying the job's terminal status.
TerminalUpdateReceived ==
    /\ socket.sent # <<>>
    /\ socket.sent[Len(socket.sent)] = [event |-> "update", data |-> db.job]
    /\ db.job.status \in Terminal

\* C24: with a token presented and the client connected, a job that
\* exists and has reached SUCCEEDED or FAILED leads to an update event
\* carrying that status followed by the close of the socket; and the
\* server has never closed the socket of such a client while the job
\* exists in a non-terminal status.
C24_TerminalUpdateThenClose ==
    /\ (task.token /\ db.job.status \in Terminal)
          ~> ((TerminalUpdateReceived /\ socket.closed) \/ ~socket.connected)
    /\ [](task.token /\ socket.closed /\ db.job # NoJob
            => TerminalUpdateReceived)

C24_Witness ==
    /\ task.token
    /\ socket.connected
    /\ socket.closed
    /\ Len(socket.sent) = 3
    /\ socket.sent[1].data.status = "PENDING"
    /\ socket.sent[3].data.status = "FAILED"
    /\ socket.sent[3].data.progress = 70

\* -------------------------------------------- analyze_and_create_receipt
\* One run of the background task, statement by statement.  db.job is the
\* committed jobs row (receipt_id 0 for NULL); db.receipt is the receipts
\* row of receipt_id: whether it exists for the user, its committed status
\* and the status flushed to the session but not committed ("none" when
\* nothing is pending); db.created is the id of a receipt the run created.
\* task is the run: its position, its arguments (job_id and receipt_id, 0
\* for None) and the number of calls made to JobService.fail.
PendingJob == [status |-> "PENDING", progress |-> 0, receipt_id |-> 0]

Outcomes == {"success", "failure", "raises"}

\* JobService.start.
start(job) == [job EXCEPT !.status = "RUNNING", !.progress = 10]

\* JobService.progress(job_id, 70).
progress(job, p) == [job EXCEPT !.progress = p]

\* JobService.succeed.
succeed(job, receipt_id) ==
    [job EXCEPT !.status = "SUCCEEDED", !.progress = 100,
                !.receipt_id = receipt_id]

\* Mutant: the failure is recorded in error_code only.
fail_ErrorCodeOnly(job) == job

\* Mutant: a failed job starts over.
fail_ResetsProgress(job) == [job EXCEPT !.status = "FAILED", !.progress = 0]

\* JobService.fail: the status, the error code and message, finished_at;
\* progress is left as it is.
fail(job) == [job EXCEPT !.status = "FAILED"]

\* A job write of the run; the run has no job to write without a job_id.
WriteJob(job) == db' = IF task.job_id = 0 THEN db ELSE [db EXCEPT !.job = job]

InitTask ==
    /\ SplitIdle
    /\ db \in [job : {PendingJob},
               receipt : [exists : BOOLEAN, committed : {"processing"},
                          flushed : {"none"}],
               created : {0}]
    /\ task \in [pc : {"start"}, job_id : {0, 1}, receipt_id : {0, 1},
                 fail_calls : {0}]
    /\ socket = <<>>

\* job_service.start(job_id, db).
StartJob ==
    /\ task.pc = "start"
    /\ WriteJob(start(db.job))
    /\ task' = [task EXCEPT !.pc = "analyze"]
    /\ UNCHANGED <<split_vars, socket>>

\* receipt_service.analyze_receipt: a result, a failure result, or an
\* exception (also one raised while building its input).
AnalyzeReceipt(outcome) ==
    /\ task.pc = "analyze"
    /\ task' = [task EXCEPT !.pc = CASE outcome = "success" -> "progress"
                                     [] outcome = "failure" -> "fail"
                                     [] OTHER -> "except"]
    /\ UNCHANGED <<split_vars, db, socket>>

\* job_service.progress(job_id, 70, db).
ReportProgress ==
    /\ task.pc = "progress"
    /\ WriteJob(progress(db.job, 70))
    /\ task' = [task EXCEPT !.pc = "store"]
    /\ UNCHANGED <<split_vars, socket>>

\* update_receipt_with_items for a receipt_id, create_receipt_with_items
\* without one, followed by job_service.succeed when it succeeded.  A
\* successful update commits the receipt with status "ready"; a receipt
\* that does not exist for the user gives a failure result.
StoreReceipt(outcome) ==
    /\ task.pc = "store"
    /\ (task.receipt_id # 0 /\ ~db.receipt.exists) => outcome # "success"
    /\ LET rid == IF task.receipt_id # 0 THEN task.receipt_id ELSE 2
           stored ==
               IF outcome # "success" THEN db
               ELSE IF task.receipt_id # 0
               THEN [db EXCEPT !.receipt.committed = "ready"]
               ELSE [db EXCEPT !.created = rid]
       IN /\ db' = IF outcome = "success" /\ task.job_id # 0
                   THEN [stored EXCEPT !.job = succeed(db.job, rid)]
                   ELSE stored
          /\ task' = [task EXCEPT !.pc = CASE outcome = "success" -> "returned"
                                           [] outcome = "failure" -> "fail"
                                           [] OTHER -> "except"]
    /\ UNCHANGED <<split_vars, socket>>

\* job_service.fail(...) after a failure result or in the except clause.
FailJob ==
    /\ task.pc \in {"fail", "except"}
    /\ WriteJob(fail(db.job))
    /\ task' = [task EXCEPT
                   !.pc = IF task.receipt_id = 0 THEN "returned"
                          ELSE IF task.pc = "fail" THEN "mark"
                          ELSE "except_mark",
                   !.fail_calls = @ + 1]
    /\ UNCHANGED <<split_vars, socket>>

\* receipt_repo.update(receipt_id, {"status": "failed"}): the row is
\* changed and flushed, or the update raises; nothing commits it.
MarkReceiptFailed(raises) ==
    /\ task.pc \in {"mark", "except_mark"}
    /\ db' = IF raises \/ ~db.receipt.exists THEN db
             ELSE [db EXCEPT !.receipt.flushed = "failed"]
    /\ task' = [task EXCEPT
                   !.pc = IF ~raises THEN "returned"
                          ELSE IF task.pc = "mark" THEN "except"
                          ELSE "raised"]
    /\ UNCHANGED <<split_vars, socket>>

NextTask ==
    \/ StartJob
    \/ \E outcome \in Outcomes : AnalyzeReceipt(outcome)
    \/ ReportProgress
    \/ \E outcome \in Outcomes : StoreReceipt(outcome)
    \/ FailJob
    \/ \E raises \in BOOLEAN : MarkReceiptFailed(raises)

SpecTask == InitTask /\ [][NextTask]_vars

RunEnded == task.pc \in {"returned", "raised"}

C26_JobAndReceiptAgree ==
    (RunEnded /\ task.job_id # 0 /\ task.receipt_id # 0 /\ db.receipt.exists) =>
        /\ db.job.status = "SUCCEEDED" =>
              /\ db.receipt.committed = "ready"
              /\ db.job.receipt_id = task.receipt_id
        /\ db.job.status = "FAILED" => db.receipt.committed = "failed"

\* C26 for the jobs that succeeded, where it holds.
C26_SucceededMeansReady ==
    (RunEnded /\ task.job_id # 0 /\ task.receipt_id # 0
     /\ db.job.status = "SUCCEEDED") =>
        db.receipt.committed = "ready" /\ db.job.receipt_id = task.receipt_id

StatusRank(status) ==
    CASE status = "PENDING" -> 0
      [] status = "RUNNING" -> 1
      [] OTHER -> 2

\* C27: within a run the job's status never moves backward, a SUCCEEDED
\* or FAILED job keeps its status, and the progress never decreases.
C27_JobStatusMovesForward ==
    [][/\ StatusRank(db'.job.status) >= StatusRank(db.job.status)
       /\ db.job.status \in Terminal => db'.job.status = db.job.status
       /\ db'.job.progress >= db.job.progress]_vars

C27_Witness ==
    /\ task.pc = "returned"
    /\ task.fail_calls = 2
    /\ db.job.status = "FAILED"
    /\ db.job.progress = 10
    /\ db.receipt.flushed = "failed"

\* ------------------------------------------- update_receipt_with_items
\* A stored receipt is updated with the items of an analysis and then
\* split.  receipt is the receipts row with its items relationship (every
\* Item row of the receipt, each with its is_deleted flag),
\* deleted_friends the Friend rows whose is_deleted is set,
\* receipt_friends what get_receipt_friends returns; task is the update
\* call made.
StoredItemBodies ==
    [unit_price : {1, MaxPrice}, quantity : {1}, is_deleted : {FALSE},
     item_friends : [AllFriends -> {"none", "active"}]]

NewItemBodies ==
    [unit_price : {1, MaxPrice}, quantity : {1}, is_deleted : {FALSE},
     item_friends : [AllFriends -> {"none"}]]

\* Item rows with ids from first on.
ItemRows(bodies, first) ==
    [i \in DOMAIN bodies |->
        [id |-> first + i - 1, unit_price |-> bodies[i].unit_price,
         quantity |-> bodies[i].quantity, is_deleted |-> bodies[i].is_deleted,
         item_friends |-> bodies[i].item_friends]]

UpdatableReceipts ==
    {[id |-> 1, total_amount |-> MaxTotal, tax |-> 0, service_charge |-> 0,
      items |-> ItemRows(b, 1)] : b \in SeqsUpTo(StoredItemBodies, MaxItems)}

\* ReceiptRepository.update_receipt(receipt_id, receipt_data, receipt_url,
\* status): the amounts of the analysis are written to the receipt.
update_receipt(r, receipt_data) ==
    [r EXCEPT !.total_amount = receipt_data.total_amount,
              !.tax = receipt_data.tax,
              !.service_charge = receipt_data.service_charge]

\* The rows marked by "for rf in existing_receipt_friends: rf.is_deleted =
\* True": get_receipt_friends returns Friend rows, which have the flag.
SoftDeleteListed(friends) == Range(friends)

\* The existing items after "item.is_deleted = True": they stay rows of the
\* receipt's items relationship.
SoftDeleteItems(items) ==
    [i \in DOMAIN items |-> [items[i] EXCEPT !.is_deleted = TRUE]]

InitUpdate ==
    /\ receipt \in UpdatableReceipts \cup {NoReceipt}
    /\ deleted_friends \in SUBSET AllFriends
    /\ receipt_friends \in
          {SortedSeq(S) : S \in SUBSET (AllFriends \ deleted_friends)}
    /\ pc = "update"
    /\ result = NoResult
    /\ invocations = <<>>
    /\ frames = <<>>
    /\ tally = <<>>
    /\ totals_list = <<>>
    /\ stored_receipt = NoReceipt
    /\ request = <<>>
    /\ response = <<>>
    /\ db = <<>>
    /\ task = <<>>
    /\ socket = <<>>

\* update_receipt_with_items(receipt_id, input_data, user_id, db), run in
\* a transaction: a receipt that is not found or a friend that is not the
\* user's non-deleted friend fails the call and rolls everything back.
UpdateReceiptWithItems(receipt_data, friend_ids) ==
    /\ pc = "update"
    /\ pc' = "start"
    /\ LET failed == \/ receipt = NoReceipt
                     \/ Range(friend_ids) \cap deleted_friends # {}
           items == SoftDeleteItems(receipt.items)
                    \o ItemRows(receipt_data.items, Len(receipt.items) + 1)
           marked == IF friend_ids = <<>> THEN {}
                     ELSE SoftDeleteListed(receipt_friends)
       IN /\ task' = [op |-> "update_receipt_with_items",
                      friend_ids |-> friend_ids,
                      outcome |-> IF failed THEN "failure" ELSE "success",
                      friends_before |-> deleted_friends]
          /\ receipt' = IF failed THEN receipt
                        ELSE [update_receipt(receipt, receipt_data)
                                 EXCEPT !.items = items]
          /\ deleted_friends' = IF failed THEN deleted_friends
                                ELSE deleted_friends \cup marked
          /\ receipt_friends' =
                IF failed THEN receipt_friends
                ELSE SortedSeq((Range(receipt_friends) \cup Range(friend_ids))
                               \ (deleted_friends \cup marked))
    /\ UNCHANGED <<result, loop_vars, totals_vars, http_vars, db, socket>>

\* The split computation after the update.
SplitAfterUpdate ==
    /\ task # <<>>
    /\ Next
    /\ UNCHANGED task

NextUpdate ==
    \/ \E items \in SeqsUpTo(NewItemBodies, MaxItems),
          friend_ids \in {SortedSeq(S) : S \in SUBSET AllFriends} :
          UpdateReceiptWithItems(
              [total_amount |-> MaxTotal, tax |-> MaxTax,
               service_charge |-> 0, items |-> items], friend_ids)
    \/ SplitAfterUpdate

SpecUpdate == InitUpdate /\ [][NextUpdate]_vars

Updated == task # <<>> /\ task.outcome = "success"

C28_NoFriendIdsNoFriendTouched ==
    (task # <<>> /\ task.friend_ids = <<>>) =>
        deleted_friends = task.friends_before

DeletedItemIds ==
    {receipt.items[k].id : k \in {j \in DOMAIN receipt.items :
                                     receipt.items[j].is_deleted}}

MaxUsers == 2

MinPasswordLength == 8

UpperOf == [c \in {"a", "b", "x"} |->
               IF c = "a" THEN "A" ELSE IF c = "b" THEN "B" ELSE "X"]

\* str.lower() on one character of the alphabet.
LowerChar(c) ==
    IF \E l \in DOMAIN UpperOf : UpperOf[l] = c
    THEN CHOOSE l \in DOMAIN UpperOf : UpperOf[l] = c
    ELSE c

\* str.lower(): every character lower-cased.
lower(s) == [i \in DOMAIN s |-> LowerChar(s[i])]

AtIndex(e) == CHOOSE i \in DOMAIN e : e[i] = "@"

\* The value a pydantic EmailStr field holds: the local part as given,
\* the domain lower-cased.
EmailStr(e) ==
    [i \in DOMAIN e |-> IF i > AtIndex(e) THEN LowerChar(e[i]) ELSE e[i]]

Emails == {<<l, "@", d>> : l \in {"a", "A", "b"}, d \in {"x", "X"}}

ShortPassword == <<"a", "1">>

Passwords ==
    {ShortPassword,
     <<"a", "a", "a", "a", "a", "a", "a", "1">>,
     <<"b", "b", "b", "b", "b", "b", "b", "1">>}

\* passlib bcrypt: verify(p, hash(q)) is true exactly when p = q.
get_password_hash(password) == <<"bcrypt", password>>

verify_password(plain_password, hashed_password) ==
    hashed_password = get_password_hash(plain_password)

\* UserRepository.get_by_email: the non-deleted rows whose email column
\* equals the argument (string equality, case-sensitive).
get_by_email(users, email) ==
    {u \in users : u.email = email /\ ~u.is_deleted}

email_exists(users, email) == get_by_email(users, email) # {}

\* UserRepository.create_user: the row holds user_in.email, not the
\* sanitized email.
create_user(users, user_in, hashed_password) ==
    [id |-> Cardinality(users) + 1,
     email |-> user_in.email,
     hashed_password |-> hashed_password,
     is_active |-> user_in.is_active,
     is_deleted |-> FALSE]

\* UserLogin.validate_email_format.
validate_email_format(v) == lower(v)

\* UserLogin: password length and validate_password_security.
validate_password_security(v) ==
    /\ Len(v) >= MinPasswordLength
    /\ \E i \in DOMAIN v : v[i] \in {"a", "b"}
    /\ \E i \in DOMAIN v : v[i] = "1"

\* AuthService.authenticate_user_and_create_token.
authenticate_user_and_create_token(users, login_data) ==
    LET sanitized_email == lower(login_data.email)
        found == get_by_email(users, sanitized_email)
    IN  IF found = {}
        THEN [success |-> FALSE, error_code |-> "USER_NOT_FOUND", sub |-> 0]
        ELSE LET user == CHOOSE u \in found : TRUE
             IN  IF ~user.is_active
                 THEN [success |-> FALSE, error_code |-> "USER_INACTIVE",
                       sub |-> 0]
                 ELSE IF ~verify_password(login_data.password,
                                          user.hashed_password)
                 THEN [success |-> FALSE, error_code |-> "INVALID_PASSWORD",
                       sub |-> 0]
                 ELSE [success |-> TRUE, error_code |-> "", sub |-> user.id]

InitAuth ==
    /\ SplitIdle
    /\ db = {}
    /\ task = [registered |-> {}, call |-> <<>>]
    /\ socket = <<>>

\* POST /register: AuthService.register_user for a validated UserCreate.
Register(email, password, is_active) ==
    /\ Cardinality(db) < MaxUsers
    /\ LET user_in == [email |-> EmailStr(email), password |-> password,
                       is_active |-> is_active]
           sanitized_email == lower(user_in.email)
           new_user == create_user(db, user_in,
                                   get_password_hash(user_in.password))
       IN  IF email_exists(db, sanitized_email)
           THEN /\ db' = db
                /\ task' = [task EXCEPT !.call =
                       [op |-> "register", email |-> email,
                        password |-> password,
                        result |-> [success |-> FALSE,
                                    error_code |-> "EMAIL_ALREADY_EXISTS",
                                    sub |-> 0]]]
           ELSE IF \E u \in db : u.email = new_user.email
           THEN \* unique index on users.email: the flush raises, the
                \* transaction is rolled back and the error re-raised
                /\ db' = db
                /\ task' = [task EXCEPT !.call =
                       [op |-> "register", email |-> email,
                        password |-> password,
                        result |-> [success |-> FALSE,
                                    error_code |-> "IntegrityError",
                                    sub |-> 0]]]
           ELSE /\ db' = db \cup {new_user}
                /\ task' = [registered |-> task.registered \cup
                               {[email |-> email, password |-> password,
                                 id |-> new_user.id]},
                            call |->
                               [op |-> "register", email |-> email,
                                password |-> password,
                                result |-> [success |-> TRUE,
                                            error_code |-> "",
                                            sub |-> new_user.id]]]
    /\ UNCHANGED <<split_vars, socket>>

\* POST /login: UserLogin(email=username, password=password), then
\* AuthService.authenticate_user_and_create_token.
Login(username, password) ==
    /\ task' = [task EXCEPT !.call =
           [op |-> "login", email |-> username, password |-> password,
            result |->
               IF ~validate_password_security(password)
               THEN [success |-> FALSE, error_code |-> "ValidationError",
                     sub |-> 0]
               ELSE authenticate_user_and_create_token(db,
                        [email |-> validate_email_format(EmailStr(username)),
                         password |-> password])]]
    /\ UNCHANGED <<split_vars, db, socket>>

NextAuth ==
    \/ \E e \in Emails, p \in Passwords, a \in BOOLEAN : Register(e, p, a)
    \/ \E e \in Emails, p \in Passwords : Login(e, p)

SpecAuth == InitAuth /\ [][NextAuth]_vars

\* The registrations that succeeded with the email and password of the
\* last login and whose account is still active.
ActiveRegistrations ==
    IF task = <<>> \/ task.call = <<>> THEN {}
    ELSE {r \in task.registered :
             /\ r.email = task.call.email
             /\ r.password = task.call.password
             /\ \E u \in db : u.id = r.id /\ u.is_active /\ ~u.is_deleted}

\* The last call was a login whose UserLogin was accepted, so that
\* authenticate_user_and_create_token has run.
LoggedIn ==
    /\ task # <<>> /\ task.call # <<>> /\ task.call.op = "login"
    /\ task.call.result.error_code # "ValidationError"

\* C30 as stated: a login with the email and the password of a
\* registration that succeeded, on the still-active account, succeeds
\* and returns a token for that account, whatever the letter case of the
\* email.
C30_RegisterThenLoginSucceeds ==
    LoggedIn =>
        \A r \in ActiveRegistrations :
            task.call.result.success /\ task.call.result.sub = r.id

\* C30 restricted to emails whose local part is lower-case, where the
\* login succeeds.
C30_LowerCaseLocalPartLogsIn ==
    LoggedIn =>
        \A r \in ActiveRegistrations :
            EmailStr(r.email) = lower(r.email) => task.call.result.success

====
